---- MODULE Spec2Model ----
(***************************************************************************)
(* StandardDefines.h: the alias generators DefineStandardPointers and      *)
(* DefineStandardTypes, and the ownership discipline of the handle types   *)
(* the aliases name.                                                       *)
(*                                                                         *)
(* Two specifications:                                                     *)
(*   SpecDecl  a translation unit being compiled: a scope receives         *)
(*             invocations of the two macros, each expanded into its       *)
(*             declarations, which are entered into the scope one by one   *)
(*             under the redeclaration rules of C++.                       *)
(*   Spec      a program running after DefineStandardPointers(Widget) was  *)
(*             compiled at namespace scope: variables of the alias types   *)
(*             are created with make_ptr, copied, assigned, reset, locked  *)
(*             and destroyed.                                              *)
(***************************************************************************)
EXTENDS Naturals, Sequences, FiniteSets, Bags, TLC

VARIABLES
    scopeKind,  \* the kind of scope the macros are invoked in
    decls,      \* that scope: declared name -> [decl, type]
    build,      \* "ok" | "failed"
    invoked,    \* <<macro, argument>> -> number of invocations so far
    last,       \* the last operation, as far as the properties refer to it
    handles,    \* the handle variables in scope: a bag of [alias, target]
    ctrl        \* entity -> its control block and the entity's state

vars == <<scopeKind, decls, build, invoked, last, handles, ctrl>>

-----------------------------------------------------------------------------
(* Bounds *)

MaxInvoke == 2      \* invocations of one macro with one argument
MaxHandles == 3     \* handle variables in scope at once
MaxEntities == 2    \* entities created by make_ptr in one run

(* The names the macros are invoked with.  CWidget and WidgetS are there   *)
(* because their generated names collide with those of Widget.             *)
BaseNames == {"Widget", "Gadget", "CWidget", "WidgetS"}

ScopeKinds == {"namespace", "block", "class"}

Null == 0

-----------------------------------------------------------------------------
(* Types.  con = "self": the type `ent` itself, const-qualified iff const. *)
(* con = a handle template: con<ent>, its element const iff entConst, the  *)
(* handle itself const iff const.                                          *)

Type(con, ent, entConst, const) ==
    [con |-> con, ent |-> ent, entConst |-> entConst, const |-> const]

(* One declaration of a macro's replacement list. *)
ClassDecl(name) ==
    [decl |-> "class", name |-> name, con |-> "self", arg |-> name, const |-> FALSE]

EnumDecl(name) ==
    [decl |-> "enum", name |-> name, con |-> "self", arg |-> name, const |-> FALSE]

Typedef(const, con, arg, name) ==
    [decl |-> "typedef", name |-> name, con |-> con, arg |-> arg, const |-> const]

(* Variants of the replacement lists, each a slip the macros could have.   *)

(* the EPtr / CEPtr lines left out *)
DefineStandardPointers_NoPtr(class_name) ==
    << ClassDecl(class_name),
       Typedef(TRUE,  "self",       class_name, "C" \o class_name),
       Typedef(FALSE, "shared_ptr", class_name, class_name \o "SPtr"),
       Typedef(TRUE,  "shared_ptr", class_name, "C" \o class_name \o "SPtr"),
       Typedef(FALSE, "weak_ptr",   class_name, class_name \o "WPtr"),
       Typedef(TRUE,  "weak_ptr",   class_name, "C" \o class_name \o "WPtr") >>

(* EPtr / CEPtr naming unique_ptr, the third template the header imports *)
DefineStandardPointers_UniquePtr(class_name) ==
    << ClassDecl(class_name),
       Typedef(TRUE,  "self",       class_name, "C" \o class_name),
       Typedef(FALSE, "shared_ptr", class_name, class_name \o "SPtr"),
       Typedef(TRUE,  "shared_ptr", class_name, "C" \o class_name \o "SPtr"),
       Typedef(FALSE, "weak_ptr",   class_name, class_name \o "WPtr"),
       Typedef(TRUE,  "weak_ptr",   class_name, "C" \o class_name \o "WPtr"),
       Typedef(FALSE, "unique_ptr", class_name, class_name \o "Ptr"),
       Typedef(TRUE,  "unique_ptr", class_name, "C" \o class_name \o "Ptr") >>

(* CE without its const *)
DefineStandardPointers_NoConst(class_name) ==
    << ClassDecl(class_name),
       Typedef(FALSE, "self",       class_name, "C" \o class_name),
       Typedef(FALSE, "shared_ptr", class_name, class_name \o "SPtr"),
       Typedef(TRUE,  "shared_ptr", class_name, "C" \o class_name \o "SPtr"),
       Typedef(FALSE, "weak_ptr",   class_name, class_name \o "WPtr"),
       Typedef(TRUE,  "weak_ptr",   class_name, "C" \o class_name \o "WPtr"),
       Typedef(FALSE, "shared_ptr", class_name, class_name \o "Ptr"),
       Typedef(TRUE,  "shared_ptr", class_name, "C" \o class_name \o "Ptr") >>

(* CESPtr without its const *)
DefineStandardPointers_MutableCSPtr(class_name) ==
    << ClassDecl(class_name),
       Typedef(TRUE,  "self",       class_name, "C" \o class_name),
       Typedef(FALSE, "shared_ptr", class_name, class_name \o "SPtr"),
       Typedef(FALSE, "shared_ptr", class_name, "C" \o class_name \o "SPtr"),
       Typedef(FALSE, "weak_ptr",   class_name, class_name \o "WPtr"),
       Typedef(TRUE,  "weak_ptr",   class_name, "C" \o class_name \o "WPtr"),
       Typedef(FALSE, "shared_ptr", class_name, class_name \o "Ptr"),
       Typedef(TRUE,  "shared_ptr", class_name, "C" \o class_name \o "Ptr") >>

(* EPtr as a weak handle *)
DefineStandardPointers_WeakPtr(class_name) ==
    << ClassDecl(class_name),
       Typedef(TRUE,  "self",       class_name, "C" \o class_name),
       Typedef(FALSE, "shared_ptr", class_name, class_name \o "SPtr"),
       Typedef(TRUE,  "shared_ptr", class_name, "C" \o class_name \o "SPtr"),
       Typedef(FALSE, "weak_ptr",   class_name, class_name \o "WPtr"),
       Typedef(TRUE,  "weak_ptr",   class_name, "C" \o class_name \o "WPtr"),
       Typedef(FALSE, "weak_ptr",   class_name, class_name \o "Ptr"),
       Typedef(TRUE,  "shared_ptr", class_name, "C" \o class_name \o "Ptr") >>

(* #define DefineStandardPointers(class_name): the replacement list, with  *)
(* ## as concatenation of the spellings.                                   *)
DefineStandardPointers(class_name) ==
    << ClassDecl(class_name),
       Typedef(TRUE,  "self",       class_name, "C" \o class_name),
       Typedef(FALSE, "shared_ptr", class_name, class_name \o "SPtr"),
       Typedef(TRUE,  "shared_ptr", class_name, "C" \o class_name \o "SPtr"),
       Typedef(FALSE, "weak_ptr",   class_name, class_name \o "WPtr"),
       Typedef(TRUE,  "weak_ptr",   class_name, "C" \o class_name \o "WPtr"),
       Typedef(FALSE, "shared_ptr", class_name, class_name \o "Ptr"),
       Typedef(TRUE,  "shared_ptr", class_name, "C" \o class_name \o "Ptr") >>

(* the shared alias lines of DefineStandardPointers copied along *)
DefineStandardTypes_WithSPtr(enum_name) ==
    << EnumDecl(enum_name),
       Typedef(TRUE, "self", enum_name, "C" \o enum_name),
       Typedef(FALSE, "shared_ptr", enum_name, enum_name \o "SPtr") >>

(* #define DefineStandardTypes(enum_name) *)
DefineStandardTypes(enum_name) ==
    << EnumDecl(enum_name),
       Typedef(TRUE, "self", enum_name, "C" \o enum_name) >>

-----------------------------------------------------------------------------
(* Entering a declaration into a scope. *)

(* The type a declaration names, its argument looked up in the scope: a    *)
(* class or enum name denotes itself, a typedef-name of a (const) class    *)
(* denotes that class and carries its const.  A typedef-name of a handle   *)
(* type would need a nested type; BaseNames holds no such name, and it is  *)
(* kept as an opaque element.                                              *)
ResolveType(scope, d) ==
    LET known == d.arg \in DOMAIN scope
        t == scope[d.arg].type
        through == known /\ scope[d.arg].decl = "typedef" /\ t.con = "self"
        ent == IF through THEN t.ent ELSE d.arg
        entConst == through /\ t.entConst
    IN  IF d.con = "self"
        THEN Type("self", ent, entConst \/ d.const, entConst \/ d.const)
        ELSE Type(d.con, ent, entConst, d.const)

(* typedef redeclaration accepted in a class scope too *)
Accepts_AnyScope(kind, scope, d) ==
    \/ d.name \notin DOMAIN scope
    \/ /\ d.decl \in {"class", "enum"}
       /\ scope[d.name].decl = d.decl
    \/ /\ d.decl = "typedef"
       /\ scope[d.name].decl = "typedef"
       /\ scope[d.name].type = ResolveType(scope, d)

(* Whether declaration d is well-formed in the scope.  `class N;` and      *)
(* `enum class N;` may repeat an earlier declaration of the same kind in   *)
(* any scope.  A typedef may repeat an earlier typedef of the same name    *)
(* only for the same type, and never in a class scope (a member is         *)
(* declared once).  Every other reuse of a declared name is a conflict.    *)
Accepts(kind, scope, d) ==
    \/ d.name \notin DOMAIN scope
    \/ /\ d.decl \in {"class", "enum"}
       /\ scope[d.name].decl = d.decl
    \/ /\ d.decl = "typedef"
       /\ kind # "class"
       /\ scope[d.name].decl = "typedef"
       /\ scope[d.name].type = ResolveType(scope, d)

Enter(scope, d) ==
    IF d.name \in DOMAIN scope
    THEN scope
    ELSE scope @@ (d.name :> [decl |-> d.decl, type |-> ResolveType(scope, d)])

(* The declarations of a replacement list, in order; the first ill-formed  *)
(* one fails the build, and the scope is left as it was before the list.   *)
RECURSIVE EnterAll(_, _, _)
EnterAll(kind, scope, ds) ==
    IF ds = << >>
    THEN [ok |-> TRUE, decls |-> scope]
    ELSE IF Accepts(kind, scope, Head(ds))
         THEN EnterAll(kind, Enter(scope, Head(ds)), Tail(ds))
         ELSE [ok |-> FALSE, decls |-> scope]

DeclareAll(kind, scope, ds) ==
    IF EnterAll(kind, scope, ds).ok
    THEN EnterAll(kind, scope, ds)
    ELSE [ok |-> FALSE, decls |-> scope]

-----------------------------------------------------------------------------
(* The translation unit. *)

Macros == {"DefineStandardPointers", "DefineStandardTypes"}

NoHandle == [alias |-> "", target |-> 0]

NoOp == [op |-> "none", macro |-> "", arg |-> "", h |-> NoHandle, src |-> NoHandle]

InitDecl ==
    /\ scopeKind \in ScopeKinds
    /\ decls = << >>
    /\ build = "ok"
    /\ invoked = [k \in Macros \X BaseNames |-> 0]
    /\ last = NoOp
    /\ handles = EmptyBag
    /\ ctrl = << >>

(* The scope after the declarations of a replacement list. *)
Compile(ds) == DeclareAll(scopeKind, decls, ds)

Invocation(macro, name) ==
    [NoOp EXCEPT !.op = "invoke", !.macro = macro, !.arg = name]

(* One invocation of DefineStandardPointers in the scope.  A failed build  *)
(* is final and leaves no scope to declare into.                           *)
UseDefineStandardPointers(E) ==
    /\ build = "ok"
    /\ invoked[<<"DefineStandardPointers", E>>] < MaxInvoke
    /\ build' = IF Compile(DefineStandardPointers(E)).ok THEN "ok" ELSE "failed"
    /\ decls' = Compile(DefineStandardPointers(E)).decls
    /\ invoked' = [invoked EXCEPT ![<<"DefineStandardPointers", E>>] = @ + 1]
    /\ last' = Invocation("DefineStandardPointers", E)
    /\ UNCHANGED <<scopeKind, handles, ctrl>>

(* One invocation of DefineStandardTypes in the scope. *)
UseDefineStandardTypes(T) ==
    /\ build = "ok"
    /\ invoked[<<"DefineStandardTypes", T>>] < MaxInvoke
    /\ build' = IF Compile(DefineStandardTypes(T)).ok THEN "ok" ELSE "failed"
    /\ decls' = Compile(DefineStandardTypes(T)).decls
    /\ invoked' = [invoked EXCEPT ![<<"DefineStandardTypes", T>>] = @ + 1]
    /\ last' = Invocation("DefineStandardTypes", T)
    /\ UNCHANGED <<scopeKind, handles, ctrl>>

NextDecl ==
    \/ \E E \in BaseNames : UseDefineStandardPointers(E)
    \/ \E T \in BaseNames : UseDefineStandardTypes(T)

SpecDecl == InitDecl /\ [][NextDecl]_vars

-----------------------------------------------------------------------------
(* The running program.  Handle variables are declared with the alias      *)
(* names of the scope; what a variable may do follows from the type its    *)
(* alias denotes: shared_ptr<E> owns (use_count), weak_ptr<E> observes     *)
(* (weak_count), and a const handle admits no assignment and no reset.     *)
(* An entity is destroyed when the use_count of its control block reaches  *)
(* zero.                                                                   *)

Entity == "Widget"

(* make_ptr<E>(args) is std::make_shared<E>(args): a new entity and the    *)
(* one shared_ptr<E> that owns it.                                         *)
make_ptr(E) == [type |-> Type("shared_ptr", E, FALSE, FALSE), use_count |-> 1]

TypeOf(alias) == decls[alias].type

(* The aliases of the scope that denote a handle of the given template.    *)
Aliases(con) ==
    {n \in DOMAIN decls : decls[n].decl = "typedef" /\ TypeOf(n).con = con}

Handle(alias, target) == [alias |-> alias, target |-> target]

IsShared(h) == TypeOf(h.alias).con = "shared_ptr"
IsWeak(h) == TypeOf(h.alias).con = "weak_ptr"
IsConst(h) == TypeOf(h.alias).const

(* A handle of type `to` can be initialised or assigned from one of type   *)
(* `from`: the same element type (const may be added to the element), a    *)
(* shared_ptr from a shared_ptr, a weak_ptr from either.                   *)
Converts(from, to) ==
    /\ from.ent = to.ent
    /\ from.entConst => to.entConst
    /\ \/ to.con = "shared_ptr" /\ from.con = "shared_ptr"
       \/ to.con = "weak_ptr" /\ from.con \in {"shared_ptr", "weak_ptr"}

(* The element can be modified through a handle unless the element type    *)
(* is const; the const of the handle itself does not matter.               *)
WritableThrough(t) == t.con = "shared_ptr" /\ ~t.entConst

(* a weak handle counted as an owner *)
Acquire_WeakOwns(c, con, e) ==
    IF e = Null THEN c
    ELSE IF con = "shared_ptr"
         THEN [c EXCEPT ![e].use_count = @ + 1]
         ELSE [c EXCEPT ![e].use_count = @ + 1, ![e].weak_count = @ + 1]

Acquire(c, con, e) ==
    IF e = Null THEN c
    ELSE IF con = "shared_ptr"
         THEN [c EXCEPT ![e].use_count = @ + 1]
         ELSE [c EXCEPT ![e].weak_count = @ + 1]

(* the entity destroyed one owner too early *)
Release_Early(c, con, e) ==
    IF e = Null THEN c
    ELSE IF con = "shared_ptr"
         THEN [c EXCEPT ![e].use_count = @ - 1,
                        ![e].alive = c[e].use_count - 1 > 1]
         ELSE [c EXCEPT ![e].weak_count = @ - 1]

(* Giving up one reference; the last owner destroys the entity, and what   *)
(* was written to it is gone with it.                                      *)
Release(c, con, e) ==
    IF e = Null THEN c
    ELSE IF con = "shared_ptr"
         THEN [c EXCEPT ![e].use_count = @ - 1,
                        ![e].alive = c[e].use_count - 1 > 0,
                        ![e].written = @ /\ c[e].use_count - 1 > 0]
         ELSE [c EXCEPT ![e].weak_count = @ - 1]

(* lock() without the expiry test *)
lock_Unchecked(c, e) == e

(* weak_ptr::lock(): the entity if it has not expired, else empty. *)
lock(c, e) == IF e # Null /\ c[e].use_count > 0 THEN e ELSE Null

InScope == BagToSet(handles)
Declare(h) == handles (+) SetToBag({h})
Destroy(h) == handles (-) SetToBag({h})

(* The last operation: an invocation, a lock (with the weak handle and    *)
(* the handle obtained), a write (with the handle written through), a      *)
(* discard, or any other.                                                  *)
Op(op, h, src) == [NoOp EXCEPT !.op = op, !.h = h, !.src = src]

Init ==
    /\ scopeKind = "namespace"
    /\ decls = DeclareAll("namespace", << >>, DefineStandardPointers(Entity)).decls
    /\ build = "ok"
    /\ invoked = [k \in Macros \X BaseNames |->
                    IF k = <<"DefineStandardPointers", Entity>> THEN 1 ELSE 0]
    /\ last = Invocation("DefineStandardPointers", Entity)
    /\ handles = EmptyBag
    /\ ctrl = << >>

(* A x = make_ptr<Widget>(); for a shared alias A *)
MakePtr(alias) ==
    /\ BagCardinality(handles) < MaxHandles
    /\ Cardinality(DOMAIN ctrl) < MaxEntities
    /\ Converts(make_ptr(Entity).type, TypeOf(alias))
    /\ LET e == Cardinality(DOMAIN ctrl) + 1
       IN  /\ handles' = Declare(Handle(alias, e))
           /\ ctrl' = ctrl @@ (e :> [use_count |-> make_ptr(Entity).use_count,
                                     weak_count |-> 0, alive |-> TRUE,
                                     written |-> FALSE])
    /\ last' = Op("other", NoHandle, NoHandle)
    /\ UNCHANGED <<scopeKind, decls, build, invoked>>

(* A x = src; a new handle variable initialised from another: a copy of a  *)
(* shared handle, or a weak handle observing what src refers to.           *)
Copy(alias, src) ==
    /\ BagCardinality(handles) < MaxHandles
    /\ src \in InScope
    /\ alias \in Aliases("shared_ptr") \cup Aliases("weak_ptr")
    /\ Converts(TypeOf(src.alias), TypeOf(alias))
    /\ handles' = Declare(Handle(alias, src.target))
    /\ ctrl' = Acquire(ctrl, TypeOf(alias).con, src.target)
    /\ last' = Op("other", NoHandle, NoHandle)
    /\ UNCHANGED <<scopeKind, decls, build, invoked>>

(* A x = w.lock(); the attempt to obtain an owning handle from a weak one  *)
Lock(alias, w) ==
    /\ BagCardinality(handles) < MaxHandles
    /\ w \in InScope
    /\ IsWeak(w)
    /\ alias \in Aliases("shared_ptr")
    /\ TypeOf(alias).ent = TypeOf(w.alias).ent
    /\ handles' = Declare(Handle(alias, lock(ctrl, w.target)))
    /\ ctrl' = Acquire(ctrl, "shared_ptr", lock(ctrl, w.target))
    /\ last' = Op("lock", Handle(alias, lock(ctrl, w.target)), w)
    /\ UNCHANGED <<scopeKind, decls, build, invoked>>

(* dst = src; only a handle that is not const can be assigned to *)
Assign(dst, src) ==
    /\ dst \in InScope
    /\ src \in InScope
    /\ dst.target # src.target
    /\ ~IsConst(dst)
    /\ Converts(TypeOf(src.alias), TypeOf(dst.alias))
    /\ handles' = Destroy(dst) (+) SetToBag({Handle(dst.alias, src.target)})
    /\ ctrl' = Release(Acquire(ctrl, TypeOf(dst.alias).con, src.target),
                       TypeOf(dst.alias).con, dst.target)
    /\ last' = Op("other", NoHandle, NoHandle)
    /\ UNCHANGED <<scopeKind, decls, build, invoked>>

(* h.reset(); only on a handle that is not const *)
Reset(h) ==
    /\ h \in InScope
    /\ ~IsConst(h)
    /\ h.target # Null
    /\ handles' = Destroy(h) (+) SetToBag({Handle(h.alias, Null)})
    /\ ctrl' = Release(ctrl, TypeOf(h.alias).con, h.target)
    /\ last' = Op("other", NoHandle, NoHandle)
    /\ UNCHANGED <<scopeKind, decls, build, invoked>>

(* The handle variable goes out of scope: its destructor runs. *)
Discard(h) ==
    /\ h \in InScope
    /\ handles' = Destroy(h)
    /\ ctrl' = Release(ctrl, TypeOf(h.alias).con, h.target)
    /\ last' = Op("discard", NoHandle, NoHandle)
    /\ UNCHANGED <<scopeKind, decls, build, invoked>>

(* h->member = value; through a shared handle that holds an entity *)
Write(h) ==
    /\ h \in InScope
    /\ h.target # Null
    /\ WritableThrough(TypeOf(h.alias))
    /\ ~ctrl[h.target].written
    /\ ctrl' = [ctrl EXCEPT ![h.target].written = TRUE]
    /\ last' = Op("write", h, NoHandle)
    /\ UNCHANGED <<scopeKind, decls, build, invoked, handles>>

Next ==
    \/ \E a \in Aliases("shared_ptr") : MakePtr(a)
    \/ \E a \in DOMAIN decls, s \in InScope : Copy(a, s)
    \/ \E a \in DOMAIN decls, w \in InScope : Lock(a, w)
    \/ \E d \in InScope, s \in InScope : Assign(d, s)
    \/ \E h \in InScope : Reset(h)
    \/ \E h \in InScope : Discard(h)
    \/ \E h \in InScope : Write(h)

Spec == Init /\ [][Next]_vars

-----------------------------------------------------------------------------
(* Properties of the alias generators, under SpecDecl. *)

DSP == "DefineStandardPointers"
DST == "DefineStandardTypes"

(* The step is an invocation of the macro with this argument. *)
Invoking(macro, name) ==
    /\ invoked'[<<macro, name>>] = invoked[<<macro, name>>] + 1
    /\ last' = Invocation(macro, name)

(* DefineStandardPointers(E) was invoked and the build stands. *)
Generated(E) == invoked[<<DSP, E>>] > 0 /\ build = "ok"

EightNames(E) ==
    { E, "C" \o E,
      E \o "Ptr", "C" \o E \o "Ptr",
      E \o "SPtr", "C" \o E \o "SPtr",
      E \o "WPtr", "C" \o E \o "WPtr" }

(* C1: an invocation of DefineStandardPointers(E) in a scope that holds    *)
(* none of E, CE, EPtr, CEPtr, ESPtr, CESPtr, EWPtr, CEWPtr is accepted,   *)
(* and every accepted invocation leaves all eight declared and introduces  *)
(* no name outside the eight.                                              *)
C1_ExactlyEightNames ==
    [][\A E \in BaseNames :
         Invoking(DSP, E) =>
           /\ EightNames(E) \cap DOMAIN decls = {} => build' = "ok"
           /\ build' = "ok" =>
                /\ EightNames(E) \subseteq DOMAIN decls'
                /\ (DOMAIN decls' \ DOMAIN decls) \subseteq EightNames(E)
                /\ \A n \in DOMAIN decls : decls'[n] = decls[n]]_vars

C1_Witness ==
    /\ last = Invocation(DSP, "Widget")
    /\ invoked[<<DSP, "Widget">>] = 1
    /\ build = "ok"
    /\ DOMAIN decls = EightNames("Widget")

(* C2 as stated: after DefineStandardPointers(E) the scope holds an alias  *)
(* of an exclusive-ownership handle to E and a const variant of it.        *)
C2_ExclusiveHandleExposed ==
    \A E \in BaseNames :
      Generated(E) =>
        \A c \in BOOLEAN :
          \E n \in DOMAIN decls :
            decls[n] = [decl |-> "typedef", type |-> Type("unique_ptr", E, FALSE, c)]

(* C2 amended: DefineStandardPointers(E) exposes a shared and a weak       *)
(* handle type to E, each mutable and const, and no exclusive-ownership    *)
(* handle type: every handle alias in the scope is shared or weak.         *)
C2_SharedAndWeakOnly ==
    \A E \in BaseNames :
      Generated(E) =>
        /\ \A con \in {"shared_ptr", "weak_ptr"}, c \in BOOLEAN :
             \E n \in EightNames(E) \cap DOMAIN decls :
               decls[n] = [decl |-> "typedef", type |-> Type(con, E, FALSE, c)]
        /\ \A n \in DOMAIN decls :
             decls[n].type.con \in {"self", "shared_ptr", "weak_ptr"}

C2_Witness ==
    /\ Generated("Gadget")
    /\ decls["GadgetWPtr"].type = Type("weak_ptr", "Gadget", FALSE, FALSE)
    /\ decls["CGadgetPtr"].type = Type("shared_ptr", "Gadget", FALSE, TRUE)

(* C3 as stated: a second invocation of DefineStandardPointers(E) in the   *)
(* same scope fails the build.                                             *)
C3_SecondInvocationFails ==
    \A E \in BaseNames : invoked[<<DSP, E>>] >= 2 => build = "failed"

(* C3 amended: a second invocation of DefineStandardPointers(E) fails the  *)
(* build when the scope is a class; in a namespace or block scope it is    *)
(* accepted as a redeclaration and leaves the scope as it was.             *)
C3_SecondInvocationByScope ==
    [][\A E \in BaseNames :
         (Invoking(DSP, E) /\ invoked[<<DSP, E>>] >= 1) =>
           IF scopeKind = "class"
           THEN build' = "failed"
           ELSE build' = "ok" /\ decls' = decls]_vars

C3_Witness ==
    /\ scopeKind = "namespace"
    /\ last = Invocation(DSP, "Widget")
    /\ invoked[<<DSP, "Widget">>] = 2
    /\ build = "ok"
    /\ DOMAIN decls = EightNames("Widget")

(* An operation on an object reached through a type: a read is permitted   *)
(* through any type, a write only through one that is not const.           *)
Permits(t, op) == op = "read" \/ ~t.const

(* C7: CE denotes E with const added and nothing else changed: what can    *)
(* be read through E can be read through CE, and no write is permitted     *)
(* through CE (while E itself permits it).                                 *)
C7_ConstAliasReadOnly ==
    \A E \in BaseNames :
      Generated(E) =>
        /\ decls[E].type = Type("self", E, FALSE, FALSE)
        /\ decls["C" \o E].decl = "typedef"
        /\ decls["C" \o E].type.con = decls[E].type.con
        /\ decls["C" \o E].type.ent = decls[E].type.ent
        /\ Permits(decls[E].type, "read") => Permits(decls["C" \o E].type, "read")
        /\ Permits(decls[E].type, "write")
        /\ ~Permits(decls["C" \o E].type, "write")

C7_Witness ==
    /\ Generated("CWidget")
    /\ decls["CCWidget"].type = Type("self", "CWidget", TRUE, TRUE)

(* C8: an accepted invocation of DefineStandardTypes(T) leaves the enum T  *)
(* and the alias CT = const T declared and introduces nothing else: no     *)
(* handle alias, and none of the Ptr / SPtr / WPtr names of T.             *)
C8_EnumPairOnly ==
    [][\A T \in BaseNames :
         Invoking(DST, T) =>
           /\ {T, "C" \o T} \cap DOMAIN decls = {} => build' = "ok"
           /\ build' = "ok" =>
                /\ decls'[T] = [decl |-> "enum", type |-> Type("self", T, FALSE, FALSE)]
                /\ decls'["C" \o T] = [decl |-> "typedef", type |-> Type("self", T, TRUE, TRUE)]
                /\ (DOMAIN decls' \ DOMAIN decls) \subseteq {T, "C" \o T}
                /\ (EightNames(T) \ {T, "C" \o T}) \cap DOMAIN decls'
                     \subseteq DOMAIN decls]_vars

C8_Witness ==
    /\ last = Invocation(DST, "Gadget")
    /\ build = "ok"
    /\ DOMAIN decls = {"Gadget", "CGadget"}
    /\ decls["Gadget"].decl = "enum"

-----------------------------------------------------------------------------
(* Properties of the handles, under Spec. *)

Entities == DOMAIN ctrl

(* The handle variables in scope that satisfy P, counted with repetition.  *)
CountWhere(b, P(_)) ==
    LET S == {x \in DOMAIN b : P(x)}
    IN  IF S = {} THEN 0 ELSE BagCardinality([h \in S |-> b[h]])

SharedTo(e, b) ==
    LET P(h) == TypeOf(h.alias).con = "shared_ptr" /\ h.target = e
    IN  CountWhere(b, P)

WeakTo(e, b) ==
    LET P(h) == TypeOf(h.alias).con = "weak_ptr" /\ h.target = e
    IN  CountWhere(b, P)

NamedTo(names, e, b) ==
    LET P(h) == h.alias \in names /\ h.target = e
    IN  CountWhere(b, P)

(* C4: an entity is alive in every state in which some shared handle       *)
(* refers to it and in no other: it is released by the very step that      *)
(* removes its last shared handle.                                         *)
C4_AliveWhileShared ==
    \A e \in Entities : ctrl[e].alive <=> SharedTo(e, handles) > 0

C4_Witness ==
    /\ last.op = "discard"
    /\ handles = EmptyBag
    /\ 1 \in Entities
    /\ ~ctrl[1].alive

(* C5: lock() on a weak handle yields a handle to the weak handle's        *)
(* entity, alive, while some shared handle refers to that entity, and an   *)
(* empty handle otherwise; no shared handle ever refers to a released      *)
(* entity.                                                                 *)
C5_LockReportsAbsence ==
    /\ [](\A h \in InScope :
            (IsShared(h) /\ h.target # Null) => ctrl[h.target].alive)
    /\ [][(last'.op = "lock" /\ handles' # handles) =>
            /\ IsWeak(last'.src)
            /\ BagIn(last'.src, handles)
            /\ CopiesIn(last'.h, handles') = CopiesIn(last'.h, handles) + 1
            /\ IF last'.src.target # Null /\ SharedTo(last'.src.target, handles) > 0
               THEN /\ last'.h.target = last'.src.target
                    /\ ctrl'[last'.h.target].alive
               ELSE last'.h.target = Null]_vars

C5_Witness ==
    /\ last.op = "lock"
    /\ last.src.target # Null
    /\ ~ctrl[last.src.target].alive
    /\ last.h.target = Null
    /\ BagIn(last.h, handles)

(* C6: a step releases an entity exactly when it takes the number of       *)
(* shared handles to it to zero; a step that only adds or removes weak     *)
(* handles releases nothing, and weak handles may outlast the entity.      *)
C6_WeakNeverExtends ==
    [][\A e \in Entities :
         LET before == SharedTo(e, handles)
             after == SharedTo(e, handles')
         IN  /\ (ctrl[e].alive /\ ~ctrl'[e].alive) <=> (before > 0 /\ after = 0)
             /\ ~ctrl[e].alive => ~ctrl'[e].alive
             /\ (after = before /\ WeakTo(e, handles') # WeakTo(e, handles))
                  => ctrl'[e].alive = ctrl[e].alive]_vars

C6_Witness ==
    \E e \in Entities :
      /\ ~ctrl[e].alive
      /\ WeakTo(e, handles) = 2
      /\ SharedTo(e, handles) = 0

(* C9: EPtr and ESPtr are one type, as are CEPtr and CESPtr: each converts *)
(* to the other, and the handles held under the Ptr names and under the    *)
(* SPtr names add up to the one use_count that decides the release.        *)
C9_PtrIsSPtr ==
    /\ TypeOf(Entity \o "Ptr") = TypeOf(Entity \o "SPtr")
    /\ TypeOf("C" \o Entity \o "Ptr") = TypeOf("C" \o Entity \o "SPtr")
    /\ Converts(TypeOf(Entity \o "Ptr"), TypeOf(Entity \o "SPtr"))
    /\ Converts(TypeOf(Entity \o "SPtr"), TypeOf(Entity \o "Ptr"))
    /\ \A e \in Entities :
         /\ ctrl[e].use_count =
              NamedTo({Entity \o "Ptr", "C" \o Entity \o "Ptr"}, e, handles)
              + NamedTo({Entity \o "SPtr", "C" \o Entity \o "SPtr"}, e, handles)
         /\ ctrl[e].alive <=> ctrl[e].use_count > 0

C9_Witness ==
    \E e \in Entities :
      /\ ctrl[e].alive
      /\ ctrl[e].use_count = 2
      /\ BagIn(Handle(Entity \o "Ptr", e), handles)
      /\ BagIn(Handle("C" \o Entity \o "SPtr", e), handles)
      /\ last.op = "discard"

ConstHandleNames ==
    {"C" \o Entity \o "SPtr", "C" \o Entity \o "Ptr", "C" \o Entity \o "WPtr"}

(* C10: a variable of a C-prefixed handle alias is const itself and its    *)
(* element is not: the only step that takes such a variable off its        *)
(* target is its own destruction, a CESPtr / CEPtr that holds an entity    *)
(* holds it alive, and the entity can be written through it.               *)
C10_ConstHandleFixed ==
    /\ [](\A a \in ConstHandleNames :
            /\ TypeOf(a).const
            /\ ~TypeOf(a).entConst
            /\ TypeOf(a).con = "shared_ptr" => WritableThrough(TypeOf(a)))
    /\ [](\A h \in InScope :
            (h.alias \in ConstHandleNames /\ IsShared(h) /\ h.target # Null)
              => ctrl[h.target].alive)
    /\ [][\A a \in ConstHandleNames, t \in Entities \cup {Null} :
            CopiesIn(Handle(a, t), handles') < CopiesIn(Handle(a, t), handles)
              => /\ BagCardinality(handles') = BagCardinality(handles) - 1
                 /\ last'.op = "discard"]_vars

C10_Witness ==
    /\ last.op = "write"
    /\ last.h.alias = "C" \o Entity \o "SPtr"
    /\ BagIn(last.h, handles)
    /\ ctrl[last.h.target].written
    /\ \E e \in Entities : ~ctrl[e].alive

====
